---- MODULE Spec2Model ----
(***************************************************************************)
(* Model of moving_average.py: class outliers (rolling mean / rolling      *)
(* sample standard deviation outlier detector).                            *)
(*                                                                         *)
(* Floating point values are modelled exactly: a rolling mean is a         *)
(* rational, a rolling standard deviation is the square root of a          *)
(* rational, a bound is  a + k*sqrt(r)  with a, k, r rational, and NaN is  *)
(* a separate value on which every comparison is false.  Rounding is not   *)
(* modelled.                                                               *)
(***************************************************************************)
EXTENDS Integers, Sequences, FiniteSets, TLC

VARIABLES
    data_frame,   \* the caller's table: its rows
    columns,      \* the caller's table: its column names
    args,         \* the arguments of the call of outliers(...)
    self,         \* the constructed object
    pc,           \* "new", then "ready" or "raised"
    raised,       \* message of the ValueError the constructor raised
    ret           \* the last method call on the object and what it returned

vars == <<data_frame, columns, args, self, pc, raised, ret>>

----------------------------------------------------------------------------
(* Bounds of the model *)

\* longest series; window sizes range over 1..MaxLen+1
MaxLen == 4

\* largest value of a series in the specification of the statistics
MaxVal == 2

\* the values of a series in the specification of the whole life cycle
Values == {0, 1}

\* Python's None, for an omitted start_date / end_date
None == <<>>

\* a float that is not a number: every comparison with it is false
NaN == [nan |-> TRUE]

\* Date strings 'YYYY-MM-DD' as their three fields <<YYYY, MM, DD>>
DateStrings == { <<2020, 1, 31>>, <<2020, 2, 15>> }

\* a string of the right shape that names no day of the calendar
BadDateStrings == { <<2020, 2, 30>> }

\* sigma as a non-negative rational n/d; 3/2 is the default of __init__
DefaultSigma == [n |-> 3, d |-> 2]

Sigmas == { [n |-> 0, d |-> 1], [n |-> 1, d |-> 2], [n |-> 1, d |-> 1], DefaultSigma }

StatSigmas == Sigmas \cup { [n |-> 2, d |-> 1] }

OriginalColumns == <<"Date", "Close">>

----------------------------------------------------------------------------
(* Dates: datetime.strptime(s, '%Y-%m-%d') and pd.to_datetime *)

IsLeap(y) == (y % 4 = 0 /\ y % 100 # 0) \/ y % 400 = 0

DaysInMonth(y, m) ==
    CASE m \in {1, 3, 5, 7, 8, 10, 12} -> 31
      [] m \in {4, 6, 9, 11}           -> 30
      [] OTHER                         -> IF IsLeap(y) THEN 29 ELSE 28

RECURSIVE DaysBefore(_, _)
DaysBefore(y, m) == IF m <= 1 THEN 0 ELSE DaysBefore(y, m - 1) + DaysInMonth(y, m - 1)

\* does the string name a calendar day (else strptime raises ValueError)
Parses(s) == s[2] \in 1..12 /\ s[3] \in 1..DaysInMonth(s[1], s[2])

\* a datetime is modelled by its day number, counted from the start of 2020,
\* as the one-field tuple <<day>>
strptime(s) == << (s[1] - 2020) * 366 + DaysBefore(s[1], s[2]) + s[3] >>

Day(t) == t[1]

ColumnParses(col) == \A i \in DOMAIN col : Parses(col[i])

to_datetime(col) == [i \in DOMAIN col |-> strptime(col[i])]

Column(frame, name) == [i \in DOMAIN frame |-> frame[i][name]]

\* min and max of a column of datetimes
min(s) == CHOOSE x \in {s[i] : i \in DOMAIN s} : \A j \in DOMAIN s : Day(x) <= Day(s[j])

max(s) == CHOOSE x \in {s[i] : i \in DOMAIN s} : \A j \in DOMAIN s : Day(x) >= Day(s[j])

\* Python's  a and b : a when a is falsy, else b
Falsy(x) == x = None

PyAnd(a, b) == IF Falsy(a) THEN a ELSE b

----------------------------------------------------------------------------
(* Floats, kept exact *)

IsNaN(x) == x = NaN

RECURSIVE Sum(_, _, _)
Sum(data, lo, hi) == IF hi < lo THEN 0 ELSE data[hi] + Sum(data, lo, hi - 1)

RECURSIVE SumSq(_, _, _)
SumSq(data, lo, hi) == IF hi < lo THEN 0 ELSE data[hi] * data[hi] + SumSq(data, lo, hi - 1)

\* Series.rolling(window=N).mean(): NaN until the trailing window is full,
\* then the rational  sum / N
rolling_mean(data, N) ==
    [i \in DOMAIN data |->
        IF i < N THEN NaN
        ELSE [n |-> Sum(data, i - N + 1, i), d |-> N]]

\* rolling_std with the population (ddof = 0) denominator
rolling_std_population(data, N) ==
    [i \in DOMAIN data |->
        IF i < N THEN NaN
        ELSE [n |-> N * SumSq(data, i - N + 1, i)
                      - Sum(data, i - N + 1, i) * Sum(data, i - N + 1, i),
              d |-> N * N]]

\* Series.rolling(window=N).std(): ddof = 1, so NaN until the window is full
\* and whenever the window holds fewer than two observations; else the square
\* root of the rational  (N*sumsq - sum^2) / (N*(N-1)),  kept as its radicand
rolling_std(data, N) ==
    [i \in DOMAIN data |->
        IF i < N \/ N < 2 THEN NaN
        ELSE [n |-> N * SumSq(data, i - N + 1, i)
                      - Sum(data, i - N + 1, i) * Sum(data, i - N + 1, i),
              d |-> N * (N - 1)]]

\* avg + sgn * sigma * std, elementwise; the value  a + k*sqrt(r)
Band(avg, sgn, sig, std) ==
    [i \in DOMAIN avg |->
        IF IsNaN(avg[i]) \/ IsNaN(std[i]) THEN NaN
        ELSE [a |-> avg[i], k |-> [n |-> sgn * sig.n, d |-> sig.d], r |-> std[i]]]

\* x^2 < k^2 * r  for  x = xn / xd
SqLess(xn, xd, k, r) == xn * xn * k.d * k.d * r.d < k.n * k.n * r.n * xd * xd

\* x^2 > k^2 * r  for  x = xn / xd
SqMore(xn, xd, k, r) == xn * xn * k.d * k.d * r.d > k.n * k.n * r.n * xd * xd

\* x < k * sqrt(r)  for  x = xn / xd  (xd > 0, r >= 0)
LessRoot(xn, xd, k, r) ==
    CASE xn <  0 /\ k.n >= 0 -> TRUE
      [] xn >= 0 /\ k.n <= 0 -> FALSE
      [] xn >= 0 /\ k.n >  0 -> SqLess(xn, xd, k, r)
      [] OTHER               -> SqMore(xn, xd, k, r)

\* value <= b
Lt_or_equal(value, b) ==
    IF IsNaN(b) THEN FALSE
    ELSE ~LessRoot(b.a.n - value * b.a.d, b.a.d, [n |-> -b.k.n, d |-> b.k.d], b.r)

\* value < b  for an integer value and a bound b; false on NaN
Lt(value, b) ==
    IF IsNaN(b) THEN FALSE
    ELSE LessRoot(value * b.a.d - b.a.n, b.a.d, b.k, b.r)

\* value >= b
Gt_or_equal(value, b) ==
    IF IsNaN(b) THEN FALSE
    ELSE ~LessRoot(value * b.a.d - b.a.n, b.a.d, b.k, b.r)

\* value > b ; false on NaN
Gt(value, b) ==
    IF IsNaN(b) THEN FALSE
    ELSE LessRoot(b.a.n - value * b.a.d, b.a.d, [n |-> -b.k.n, d |-> b.k.d], b.r)

----------------------------------------------------------------------------
(* outliers.find_outliers and outliers.get_outliers, as functions of self *)

avg(obj) == rolling_mean(obj.data, obj.N)

std(obj) == rolling_std(obj.data, obj.N)

upper_bound(obj) == Band(avg(obj), 1, obj.sigma, std(obj))

lower_bound(obj) == Band(avg(obj), -1, obj.sigma, std(obj))

\* zip(self.date, self.data, upper_bound, lower_bound)
Zipped(obj) ==
    LET ub == upper_bound(obj)
        lb == lower_bound(obj)
    IN  [i \in DOMAIN obj.data |-> <<obj.date[i], obj.data[i], ub[i], lb[i]>>]

\* the test with the two bounds exchanged
IsOutlier_swapped(t) == Lt(t[2], t[3]) \/ Gt(t[2], t[4])

\* for date, value, upper, lower in zip(...) if (value < lower) or (value > upper)
IsOutlier(t) == Lt(t[2], t[4]) \/ Gt(t[2], t[3])

\* the two bound columns exchanged
OutlierRow_swapped(t) ==
    [Date |-> t[1], Abnormal_values |-> t[2], Lower_Bound |-> t[3], Upper_Bound |-> t[4]]

\* the tuple (date, value, lower, upper) under the column names given at the end
OutlierRow(t) ==
    [Date |-> t[1], Abnormal_values |-> t[2], Lower_Bound |-> t[4], Upper_Bound |-> t[3]]

find_outliers(obj) ==
    LET kept == SelectSeq(Zipped(obj), IsOutlier)
    IN  [i \in DOMAIN kept |-> OutlierRow(kept[i])]

\* the date range without its end points
InRange_exclusive(obj, row) ==
    Day(row.Date) > Day(obj.start) /\ Day(row.Date) < Day(obj.end)

InRange(obj, row) ==
    Day(row.Date) >= Day(obj.start) /\ Day(row.Date) <= Day(obj.end)

\* the tag decided after the date filter
get_outliers_tag_after_filter(obj) ==
    LET kept == SelectSeq(find_outliers(obj), LAMBDA row : InRange(obj, row))
    IN  IF Len(kept) = 0
        THEN [tag |-> "Sucess", text |-> "No anomalies found", rows |-> <<>>]
        ELSE [tag |-> "Failure", text |-> "", rows |-> kept]

get_outliers(obj) ==
    LET found == find_outliers(obj)
    IN  IF Len(found) = 0
        THEN [tag |-> "Sucess", text |-> "No anomalies found", rows |-> <<>>]
        ELSE [tag |-> "Failure", text |-> "",
              rows |-> SelectSeq(found, LAMBDA row : InRange(obj, row))]

----------------------------------------------------------------------------
(* The state machine: one detector built from one caller-owned table *)

EmptyFrameMsg == "Error: input data frame is empty"

WindowMsg == "Error: window_size is larger than input data"

DateMsg == "time data does not match format '%Y-%m-%d'"

\* The tables a caller passes in.  Rows are in chronological or in reverse
\* chronological order (both occur in exported price tables); a corrupt table
\* has one Date cell that names no calendar day.
Rows == [Date : DateStrings, Value : Values]

Monotone(col) ==
    \/ \A i, j \in DOMAIN col : i < j => Day(strptime(col[i])) <= Day(strptime(col[j]))
    \/ \A i, j \in DOMAIN col : i < j => Day(strptime(col[i])) >= Day(strptime(col[j]))

CleanFrames ==
    { f \in UNION { [1..n -> Rows] : n \in 0..MaxLen } : Monotone(Column(f, "Date")) }

CorruptFrames ==
    UNION { { [i \in 1..n |-> [Date |-> IF i = k THEN bad ELSE d, Value |-> 0]] :
                k \in 1..n, d \in DateStrings, bad \in BadDateStrings } :
            n \in 1..MaxLen }

Frames == CleanFrames \cup CorruptFrames

\* Daily tables: row i is dated 2020-01-i, values range over 0..MaxVal
DailyFrames ==
    UNION { { [i \in 1..n |-> [Date |-> <<2020, 1, i>>, Value |-> v[i]]] :
                v \in [1..n -> 0..MaxVal] } :
            n \in 0..MaxLen }

NoObject == [constructed |-> FALSE]

NoArgs == [called |-> FALSE]

NotCalled == [method |-> "none"]

DateArgs == {None} \cup DateStrings \cup BadDateStrings

Init ==
    /\ data_frame \in Frames
    /\ columns = OriginalColumns
    /\ args = NoArgs
    /\ self = NoObject
    /\ pc = "new"
    /\ raised = ""
    /\ ret = NotCalled

\* the four-way resolution of self.start / self.end ; dates is the coerced column
BothGiven(sd, ed) == PyAnd(sd, ed) # None

RangeParses(sd, ed) ==
    IF BothGiven(sd, ed) THEN Parses(sd) /\ Parses(ed)
    ELSE IF sd # None THEN Parses(sd)
    ELSE IF ed # None THEN Parses(ed)
    ELSE TRUE

ResolveStart(sd, ed, dates) ==
    IF BothGiven(sd, ed) THEN strptime(sd)
    ELSE IF sd # None THEN strptime(sd)
    ELSE min(dates)

ResolveEnd(sd, ed, dates) ==
    IF BothGiven(sd, ed) THEN strptime(ed)
    ELSE IF sd # None THEN max(dates)
    ELSE IF ed # None THEN strptime(ed)
    ELSE max(dates)

\* data_frame['Date'] = pd.to_datetime(data_frame['Date'])
Coerced(frame) ==
    LET parsed == to_datetime(Column(frame, "Date"))
    IN  [i \in DOMAIN frame |-> [Date |-> parsed[i], Value |-> frame[i].Value]]

\* the window check with >= for >
Raises_window_geq(frame, window_size, start_date, end_date) ==
    IF Len(frame) = 0
        THEN [line |-> 46, msg |-> EmptyFrameMsg]
    ELSE IF ~ColumnParses(Column(frame, "Date"))
        THEN [line |-> 50, msg |-> DateMsg]
    ELSE IF ~RangeParses(start_date, end_date)
        THEN [line |-> 53, msg |-> DateMsg]
    ELSE IF window_size >= Len(frame)
        THEN [line |-> 72, msg |-> WindowMsg]
    ELSE [line |-> 0, msg |-> ""]

\* the date range resolved before the table is looked at
Raises_range_first(frame, window_size, start_date, end_date) ==
    IF ~RangeParses(start_date, end_date)
        THEN [line |-> 53, msg |-> DateMsg]
    ELSE IF Len(frame) = 0
        THEN [line |-> 46, msg |-> EmptyFrameMsg]
    ELSE IF ~ColumnParses(Column(frame, "Date"))
        THEN [line |-> 50, msg |-> DateMsg]
    ELSE IF window_size > Len(frame)
        THEN [line |-> 72, msg |-> WindowMsg]
    ELSE [line |-> 0, msg |-> ""]

\* The ValueError the constructor ends in, if any, as the line that raises it
\* and its message: the checks in the order the constructor makes them.
Raises(frame, window_size, start_date, end_date) ==
    IF Len(frame) = 0
        THEN [line |-> 46, msg |-> EmptyFrameMsg]
    ELSE IF ~ColumnParses(Column(frame, "Date"))
        THEN [line |-> 50, msg |-> DateMsg]
    ELSE IF ~RangeParses(start_date, end_date)
        THEN [line |-> 53, msg |-> DateMsg]
    ELSE IF window_size > Len(frame)
        THEN [line |-> 72, msg |-> WindowMsg]
    ELSE [line |-> 0, msg |-> ""]

\* outliers.__init__(data_frame, window_size, sigma, start_date, end_date)
Construct(window_size, sigma, start_date, end_date) ==
    LET err == Raises(data_frame, window_size, start_date, end_date)
    IN  /\ args' = [called |-> TRUE, window_size |-> window_size, sigma |-> sigma,
                    start_date |-> start_date, end_date |-> end_date]
        /\ ret' = ret
        /\ raised' = err.msg
        /\ pc' = IF err.line = 0 THEN "ready" ELSE "raised"
        \* line 49 runs unless line 46 raised, line 50 unless it raised itself
        /\ columns' = IF err.line = 46 THEN columns ELSE <<"Date", "Value">>
        /\ data_frame' = IF err.line \in {46, 50} THEN data_frame
                         ELSE Coerced(data_frame)
        /\ self' = IF err.line # 0 THEN self
                   ELSE [constructed |-> TRUE,
                         start |-> ResolveStart(start_date, end_date,
                                                Column(data_frame', "Date")),
                         end   |-> ResolveEnd(start_date, end_date,
                                              Column(data_frame', "Date")),
                         data  |-> Column(data_frame', "Value"),
                         date  |-> Column(data_frame', "Date"),
                         sigma |-> sigma,
                         N     |-> window_size]

\* a call of outliers.find_outliers
FindOutliers ==
    /\ pc = "ready"
    /\ ret' = [method |-> "find_outliers", value |-> find_outliers(self)]
    /\ UNCHANGED <<data_frame, columns, args, self, pc, raised>>

\* a call of outliers.get_outliers
GetOutliers ==
    /\ pc = "ready"
    /\ ret' = [method |-> "get_outliers", value |-> get_outliers(self)]
    /\ UNCHANGED <<data_frame, columns, args, self, pc, raised>>

New ==
    /\ pc = "new"
    /\ \E w \in 1..(MaxLen + 1), s \in Sigmas, sd \in DateArgs, ed \in DateArgs :
          Construct(w, s, sd, ed)

Next == New \/ FindOutliers \/ GetOutliers

\* The life cycle of a detector: every kind of table and of date range
Spec == Init /\ [][Next]_vars

\* The statistics: daily tables with more values, the whole date range
InitStats ==
    /\ data_frame \in DailyFrames
    /\ columns = OriginalColumns
    /\ args = NoArgs
    /\ self = NoObject
    /\ pc = "new"
    /\ raised = ""
    /\ ret = NotCalled

NewStats ==
    /\ pc = "new"
    /\ \E w \in 1..(MaxLen + 1), s \in StatSigmas : Construct(w, s, None, None)

NextStats == NewStats \/ FindOutliers \/ GetOutliers

SpecStats == InitStats /\ [][NextStats]_vars

----------------------------------------------------------------------------
(* Reference notions the properties are stated with, computed from the     *)
(* window directly and without square roots                                *)

Window(obj, i) == (i - obj.N + 1)..i

FullWindow(obj, i) == i \in obj.N..Len(obj.data)

WinSum(obj, i) == Sum(obj.data, i - obj.N + 1, i)

\* N^2 * (sum of squared deviations from the window mean)
RECURSIVE DevSq(_, _, _, _)
DevSq(obj, i, lo, hi) ==
    IF hi < lo THEN 0
    ELSE (obj.N * obj.data[hi] - WinSum(obj, i)) * (obj.N * obj.data[hi] - WinSum(obj, i))
         + DevSq(obj, i, lo, hi - 1)

\* (value - mean_i)^2 > sigma^2 * variance_i, variance with the N-1 denominator,
\* cleared of denominators
Deviates(obj, i) ==
    /\ FullWindow(obj, i)
    /\ (obj.N * obj.data[i] - WinSum(obj, i)) * (obj.N * obj.data[i] - WinSum(obj, i))
         * (obj.N - 1) * obj.sigma.d * obj.sigma.d
       > obj.sigma.n * obj.sigma.n * DevSq(obj, i, i - obj.N + 1, i)

DeviatingIdx(obj) == { i \in DOMAIN obj.data : Deviates(obj, i) }

\* the k-th smallest element of a set of indices
Kth(S, k) == CHOOSE i \in S : Cardinality({ j \in S : j < i }) = k - 1

\* mean_i + sgn * sigma * std_i  as the model writes a float
BoundAt(obj, i, sgn) ==
    [a |-> [n |-> WinSum(obj, i), d |-> obj.N],
     k |-> [n |-> sgn * obj.sigma.n, d |-> obj.sigma.d],
     r |-> [n |-> DevSq(obj, i, i - obj.N + 1, i), d |-> obj.N * obj.N * (obj.N - 1)]]

\* two floats of the model denote the same number
SameRat(p, q) == p.n * q.d = q.n * p.d

SameFloat(x, y) ==
    /\ ~IsNaN(x) /\ ~IsNaN(y)
    /\ SameRat(x.a, y.a)
    /\ \/ SameRat(x.k, y.k) /\ SameRat(x.r, y.r)
       \/ (x.k.n = 0 \/ x.r.n = 0) /\ (y.k.n = 0 \/ y.r.n = 0)

\* x <= y for two bounds around the same mean and with the same radicand
BoundLeq(x, y) ==
    /\ ~IsNaN(x) /\ ~IsNaN(y)
    /\ SameRat(x.a, y.a) /\ SameRat(x.r, y.r)
    /\ (x.r.n = 0 \/ x.k.n * y.k.d <= y.k.n * x.k.d)

Called(m) == pc = "ready" /\ ret.method = m

----------------------------------------------------------------------------
(* C1: find_outliers returns, in series order, exactly the points with a   *)
(* full trailing window whose value deviates from the window mean by more  *)
(* than sigma sample standard deviations; no point before index W-1 is     *)
(* returned; the result is empty when no point qualifies.                  *)
C1_FlagsExactly ==
    Called("find_outliers") =>
        LET F == DeviatingIdx(self)
        IN  /\ Len(ret.value) = Cardinality(F)
            /\ \A k \in 1..Len(ret.value) :
                  /\ ret.value[k].Date = self.date[Kth(F, k)]
                  /\ ret.value[k].Abnormal_values = self.data[Kth(F, k)]
            /\ \A i \in F : i >= self.N

\* a call that returned some points and left out a point with a full window
C1_Witness ==
    /\ Called("find_outliers")
    /\ self.N >= 2
    /\ self.sigma.n > 0
    /\ Len(ret.value) >= 2
    /\ Len(ret.value) < Len(self.data) - self.N + 1

----------------------------------------------------------------------------
(* C2: in every record find_outliers returns, Lower Bound is mean - sigma  *)
(* * std and Upper Bound is mean + sigma * std of the record's trailing    *)
(* window, Lower Bound <= Upper Bound, and the value is strictly below the *)
(* lower or strictly above the upper bound.                                *)
C2_BoundColumns ==
    Called("find_outliers") =>
        LET F == DeviatingIdx(self)
        IN  /\ Len(ret.value) = Cardinality(F)
            /\ \A k \in 1..Len(ret.value) :
                  LET row == ret.value[k]
                  IN  /\ SameFloat(row.Lower_Bound, BoundAt(self, Kth(F, k), -1))
                      /\ SameFloat(row.Upper_Bound, BoundAt(self, Kth(F, k), 1))
                      /\ BoundLeq(row.Lower_Bound, row.Upper_Bound)
                      /\ \/ Lt(row.Abnormal_values, row.Lower_Bound)
                         \/ Gt(row.Abnormal_values, row.Upper_Bound)

\* a call that returned one record below its band and one above, sigma > 0
C2_Witness ==
    /\ Called("find_outliers")
    /\ self.sigma.n > 0
    /\ \E j, k \in 1..Len(ret.value) :
          /\ Lt(ret.value[j].Abnormal_values, ret.value[j].Lower_Bound)
          /\ Gt(ret.value[k].Abnormal_values, ret.value[k].Upper_Bound)

----------------------------------------------------------------------------
(* C3: the tag get_outliers returns is 'Sucess' exactly when find_outliers *)
(* returns no record and 'Failure' otherwise, whatever the date filter     *)
(* leaves.                                                                 *)
C3_TagFromUnfiltered ==
    Called("get_outliers") =>
        /\ ret.value.tag \in {"Sucess", "Failure"}
        /\ ret.value.tag = "Sucess" <=> Len(find_outliers(self)) = 0

\* 'Failure' with an empty record list
C3_Witness ==
    /\ Called("get_outliers")
    /\ ret.value.tag = "Failure"
    /\ Len(ret.value.rows) = 0

----------------------------------------------------------------------------
(* C4: when find_outliers is non-empty, get_outliers returns exactly the   *)
(* find_outliers records dated within [start, end], ends included, in the  *)
(* same order; start is start_date or else the least date of the series,   *)
(* end is end_date or else the greatest; with neither given every record   *)
(* is returned.                                                            *)
SeriesDates == { self.date[i] : i \in DOMAIN self.date }

EarliestDate == CHOOSE d \in SeriesDates : \A e \in SeriesDates : Day(d) <= Day(e)

LatestDate == CHOOSE d \in SeriesDates : \A e \in SeriesDates : Day(d) >= Day(e)

RangeStart == IF args.start_date # None THEN strptime(args.start_date) ELSE EarliestDate

RangeEnd == IF args.end_date # None THEN strptime(args.end_date) ELSE LatestDate

Within(row) == Day(RangeStart) <= Day(row.Date) /\ Day(row.Date) <= Day(RangeEnd)

C4_DateFilter ==
    (Called("get_outliers") /\ Len(find_outliers(self)) > 0) =>
        /\ ret.value.rows = SelectSeq(find_outliers(self), Within)
        /\ (args.start_date = None /\ args.end_date = None)
              => ret.value.rows = find_outliers(self)

\* only start_date given; it keeps a record dated on start_date and drops one
C4_Witness ==
    /\ Called("get_outliers")
    /\ args.start_date # None /\ args.end_date = None
    /\ Len(ret.value.rows) > 0
    /\ Len(ret.value.rows) < Len(find_outliers(self))
    /\ \E k \in 1..Len(ret.value.rows) : ret.value.rows[k].Date = self.start

----------------------------------------------------------------------------
(* C5: the indices with a defined bound.                                   *)
DefinedIdx(obj) ==
    { i \in DOMAIN obj.data :
        ~IsNaN(upper_bound(obj)[i]) /\ ~IsNaN(lower_bound(obj)[i]) }

\* C5 as stated: for every 1 <= W <= L, W = 1 included, the indices with a
\* defined bound are W-1 .. L-1 (here W .. L, counting from 1), L - W + 1 of them.
C5_AsStated ==
    pc = "ready" =>
        /\ DefinedIdx(self) = self.N..Len(self.data)
        /\ Cardinality(DefinedIdx(self)) = Len(self.data) - self.N + 1

\* C5 as amended: for 2 <= W <= L the indices with a defined bound are
\* W-1 .. L-1, L - W + 1 of them; for W = 1 the sample standard deviation of a
\* single observation is undefined and no index has a defined bound.
C5_DefinedBounds ==
    pc = "ready" =>
        IF self.N >= 2
        THEN /\ DefinedIdx(self) = self.N..Len(self.data)
             /\ Cardinality(DefinedIdx(self)) = Len(self.data) - self.N + 1
        ELSE DefinedIdx(self) = {}

\* find_outliers ran with a window shorter than the series and longer than 1
C5_Witness ==
    /\ Called("find_outliers")
    /\ self.N >= 2
    /\ Len(self.data) > self.N

----------------------------------------------------------------------------
(* C6: for a fixed series and window, raising sigma (sigma >= 0) never     *)
(* adds a flagged point: the points flagged with the larger sigma are     *)
(* among those flagged with the smaller, and are no more numerous.         *)
FlaggedIdx(obj) == { i \in DOMAIN obj.data : IsOutlier(Zipped(obj)[i]) }

SigmaLeq(s1, s2) == s1.n * s2.d <= s2.n * s1.d

WithSigma(obj, s) == [obj EXCEPT !.sigma = s]

C6_SigmaMonotone ==
    Called("find_outliers") =>
        \A s2 \in StatSigmas :
            SigmaLeq(self.sigma, s2) =>
                /\ FlaggedIdx(WithSigma(self, s2)) \subseteq FlaggedIdx(self)
                /\ Len(find_outliers(WithSigma(self, s2))) <= Len(ret.value)

\* a positive sigma that flags points, and a larger one that flags fewer
C6_Witness ==
    /\ Called("find_outliers")
    /\ self.sigma.n > 0
    /\ \E s2 \in StatSigmas :
          /\ SigmaLeq(self.sigma, s2)
          /\ Len(find_outliers(WithSigma(self, s2))) < Len(ret.value)
          /\ Len(find_outliers(WithSigma(self, s2))) > 0

----------------------------------------------------------------------------
(* C7: on a constant series (every value c), for every window and sigma,   *)
(* each window whose standard deviation is defined has standard deviation  *)
(* 0 and both bounds equal to c, no point is flagged, find_outliers        *)
(* returns the empty result and get_outliers the 'Sucess' tag.             *)
Constant(obj) == \A i, j \in DOMAIN obj.data : obj.data[i] = obj.data[j]

Exactly(c) == [a |-> [n |-> c, d |-> 1], k |-> [n |-> 0, d |-> 1], r |-> [n |-> 0, d |-> 1]]

----------------------------------------------------------------------------
(* C8: the window-too-large error.                                         *)

\* the Date column holds datetimes: every date of the series was well formed
SeriesParsed == \A i \in DOMAIN data_frame : Len(data_frame[i].Date) = 1

\* C8 as stated: on a non-empty series, window_size > L always ends in the
\* window error, whatever sigma, start_date and end_date are, with no statistic
\* computed; window_size <= L never does.
C8_AsStated ==
    (args.called /\ Len(data_frame) > 0 /\ SeriesParsed) =>
        /\ args.window_size > Len(data_frame) =>
              pc = "raised" /\ raised = WindowMsg /\ ret = NotCalled
        /\ args.window_size <= Len(data_frame) => raised # WindowMsg

\* every date the constructor parses is well formed
DatesParse(frame, sd, ed) ==
    /\ \A i \in DOMAIN frame : Parses(frame[i].Date)
    /\ sd = None \/ Parses(sd)
    /\ ed = None \/ Parses(ed)

\* C8 as amended: on a non-empty series, window_size > L always ends in an
\* error with no statistic computed: the window error when the dates of the
\* series and the given start_date / end_date are all well formed, and the
\* date-parsing error otherwise (dates are parsed before the window is
\* checked); window_size <= L never ends in the window error.
C8_WindowTooLarge ==
    [][ (pc = "new" /\ pc' # "new" /\ Len(data_frame) > 0) =>
          /\ args'.window_size > Len(data_frame) =>
                /\ pc' = "raised"
                /\ ret' = NotCalled
                /\ raised' = IF DatesParse(data_frame, args'.start_date, args'.end_date)
                             THEN WindowMsg ELSE DateMsg
          /\ args'.window_size <= Len(data_frame) => raised' # WindowMsg ]_vars

\* the window error, raised with both dates given
C8_Witness ==
    /\ pc = "raised"
    /\ raised = WindowMsg
    /\ Len(data_frame) > 1
    /\ args.start_date # None /\ args.end_date # None

----------------------------------------------------------------------------
(* C9: on an empty series every configuration ends in the empty-input      *)
(* error, before any date is parsed, the date range resolved, the window   *)
(* checked or the caller's table changed; no statistic is computed.        *)
C9_EmptyInput ==
    (args.called /\ Len(data_frame) = 0) =>
        /\ pc = "raised"
        /\ raised = EmptyFrameMsg
        /\ columns = OriginalColumns
        /\ self = NoObject
        /\ ret = NotCalled

\* the empty table with a malformed start_date and a window of 2
C9_Witness ==
    /\ args.called
    /\ Len(data_frame) = 0
    /\ args.start_date \in BadDateStrings
    /\ args.window_size = 2
    /\ raised = EmptyFrameMsg

----------------------------------------------------------------------------
(* C10: whenever sigma^2 * W >= (W-1)^2, as for W in {2, 3, 4} with the    *)
(* default sigma, find_outliers returns the empty result for every series  *)
(* and get_outliers the 'Sucess' tag.                                      *)
SigmaCoversWindow(obj) ==
    obj.sigma.n * obj.sigma.n * obj.N >= (obj.N - 1) * (obj.N - 1) * obj.sigma.d * obj.sigma.d

====
